---------------------------- MODULE Spec2Model ----------------------------
(***************************************************************************)
(* Model of src/app.py: the ConstructionChatbot response orchestration     *)
(* (topic gate, pipeline routing, crew kickoff, direct fallback, static    *)
(* apology) and its rolling memory window.                                 *)
(*                                                                         *)
(* Python str values are sequences of one-character strings, so that       *)
(* lower(), the substring tests, strip(), len() and slicing are computed   *)
(* as the code computes them.                                              *)
(***************************************************************************)
EXTENDS Naturals, Sequences, FiniteSets

(***************************************************************************)
(* String helpers (Python str operations used by the code)                 *)
(***************************************************************************)

UpperCase ==
  << "A", "B", "C", "D", "E", "F", "G", "H", "I", "J", "K", "L", "M",
     "N", "O", "P", "Q", "R", "S", "T", "U", "V", "W", "X", "Y", "Z" >>

LowerCase ==
  << "a", "b", "c", "d", "e", "f", "g", "h", "i", "j", "k", "l", "m",
     "n", "o", "p", "q", "r", "s", "t", "u", "v", "w", "x", "y", "z" >>

\* str.lower() on one character (ASCII letters)
lower_char(c) ==
  IF \E i \in DOMAIN UpperCase : UpperCase[i] = c
    THEN LowerCase[CHOOSE i \in DOMAIN UpperCase : UpperCase[i] = c]
    ELSE c

\* str.lower()
lower(s) == [i \in 1..Len(s) |-> lower_char(s[i])]

\* k in s   (substring test)
contains(s, k) ==
  \E i \in 0..(Len(s) - Len(k)) : SubSeq(s, i + 1, i + Len(k)) = k

\* the characters str.strip() removes
Whitespace == { " ", "\t", "\n", "\r", "\f" }

\* str.strip(): drop leading and trailing whitespace
strip(s) ==
  IF \A i \in 1..Len(s) : s[i] \in Whitespace THEN << >>
  ELSE LET first == CHOOSE i \in 1..Len(s) :
                      /\ s[i] \notin Whitespace
                      /\ \A j \in 1..(i - 1) : s[j] \in Whitespace
           last  == CHOOSE i \in 1..Len(s) :
                      /\ s[i] \notin Whitespace
                      /\ \A j \in (i + 1)..Len(s) : s[j] \in Whitespace
       IN  SubSeq(s, first, last)

\* s[:n]
slice_to(s, n) == SubSeq(s, 1, IF Len(s) < n THEN Len(s) ELSE n)

Digits == << "0", "1", "2", "3", "4", "5", "6", "7", "8", "9" >>

\* str(i) for a natural number i, as the f-string formats it
RECURSIVE int_str(_)
int_str(i) ==
  IF i < 10 THEN << Digits[i + 1] >>
  ELSE int_str(i \div 10) \o << Digits[(i % 10) + 1] >>

(***************************************************************************)
(* String literals of the code                                             *)
(***************************************************************************)

(* "I can only assist with construction-related queries. Please ask about building, safety, materials, project management, or engineering topics." *)

DeclineLiteral ==
  <<
    "I", " ", "c", "a", "n", " ", "o", "n", "l", "y", " ", "a", "s", "s", "i", "s",
    "t", " ", "w", "i", "t", "h", " ", "c", "o", "n", "s", "t", "r", "u", "c", "t",
    "i", "o", "n", "-", "r", "e", "l", "a", "t", "e", "d", " ", "q", "u", "e", "r",
    "i", "e", "s", ".", " ", "P", "l", "e", "a", "s", "e", " ", "a", "s", "k", " ",
    "a", "b", "o", "u", "t", " ", "b", "u", "i", "l", "d", "i", "n", "g", ",", " ",
    "s", "a", "f", "e", "t", "y", ",", " ", "m", "a", "t", "e", "r", "i", "a", "l",
    "s", ",", " ", "p", "r", "o", "j", "e", "c", "t", " ", "m", "a", "n", "a", "g",
    "e", "m", "e", "n", "t", ",", " ", "o", "r", " ", "e", "n", "g", "i", "n", "e",
    "e", "r", "i", "n", "g", " ", "t", "o", "p", "i", "c", "s", "." >>

(* "I apologize, but I'm having trouble generating a proper response. Could you please rephrase your construction-related question?" *)

RephraseApology ==
  <<
    "I", " ", "a", "p", "o", "l", "o", "g", "i", "z", "e", ",", " ", "b", "u", "t",
    " ", "I", "'", "m", " ", "h", "a", "v", "i", "n", "g", " ", "t", "r", "o", "u",
    "b", "l", "e", " ", "g", "e", "n", "e", "r", "a", "t", "i", "n", "g", " ", "a",
    " ", "p", "r", "o", "p", "e", "r", " ", "r", "e", "s", "p", "o", "n", "s", "e",
    ".", " ", "C", "o", "u", "l", "d", " ", "y", "o", "u", " ", "p", "l", "e", "a",
    "s", "e", " ", "r", "e", "p", "h", "r", "a", "s", "e", " ", "y", "o", "u", "r",
    " ", "c", "o", "n", "s", "t", "r", "u", "c", "t", "i", "o", "n", "-", "r", "e",
    "l", "a", "t", "e", "d", " ", "q", "u", "e", "s", "t", "i", "o", "n", "?" >>

(* "I apologize, but I'm experiencing technical difficulties. ... Please try
   rephrasing your question.\n\nTechnical error: " *)

FallbackPrefix ==
  <<
    "I", " ", "a", "p", "o", "l", "o", "g", "i", "z", "e", ",", " ", "b", "u", "t",
    " ", "I", "'", "m", " ", "e", "x", "p", "e", "r", "i", "e", "n", "c", "i", "n",
    "g", " ", "t", "e", "c", "h", "n", "i", "c", "a", "l", " ", "d", "i", "f", "f",
    "i", "c", "u", "l", "t", "i", "e", "s", ".", " ", "H", "o", "w", "e", "v", "e",
    "r", ",", " ", "I", " ", "c", "a", "n", " ", "s", "t", "i", "l", "l", " ", "h",
    "e", "l", "p", " ", "w", "i", "t", "h", " ", "c", "o", "n", "s", "t", "r", "u",
    "c", "t", "i", "o", "n", "-", "r", "e", "l", "a", "t", "e", "d", " ", "q", "u",
    "e", "s", "t", "i", "o", "n", "s", " ", "a", "b", "o", "u", "t", " ", "s", "a",
    "f", "e", "t", "y", ",", " ", "m", "a", "t", "e", "r", "i", "a", "l", "s", ",",
    " ", "p", "r", "o", "j", "e", "c", "t", " ", "m", "a", "n", "a", "g", "e", "m",
    "e", "n", "t", ",", " ", "a", "n", "d", " ", "e", "n", "g", "i", "n", "e", "e",
    "r", "i", "n", "g", ".", " ", "P", "l", "e", "a", "s", "e", " ", "t", "r", "y",
    " ", "r", "e", "p", "h", "r", "a", "s", "i", "n", "g", " ", "y", "o", "u", "r",
    " ", "q", "u", "e", "s", "t", "i", "o", "n", ".", "\n", "\n", "T", "e", "c", "h",
    "n", "i", "c", "a", "l", " ", "e", "r", "r", "o", "r", ":", " " >>

(* "No previous conversation." *)

NoPreviousConversation ==
  <<
    "N", "o", " ", "p", "r", "e", "v", "i", "o", "u", "s", " ", "c", "o", "n", "v",
    "e", "r", "s", "a", "t", "i", "o", "n", "." >>

construction_keywords ==
  { <<"c", "o", "n", "s", "t", "r", "u", "c", "t", "i", "o", "n">>,
    <<"b", "u", "i", "l", "d", "i", "n", "g">>,
    <<"c", "o", "n", "c", "r", "e", "t", "e">>,
    <<"s", "t", "e", "e", "l">>,
    <<"f", "o", "u", "n", "d", "a", "t", "i", "o", "n">>,
    <<"s", "a", "f", "e", "t", "y">>,
    <<"p", "r", "o", "j", "e", "c", "t", " ", "m", "a", "n", "a", "g", "e", "m", "e", "n", "t">>,
    <<"e", "n", "g", "i", "n", "e", "e", "r", "i", "n", "g">>,
    <<"s", "t", "r", "u", "c", "t", "u", "r", "e">>,
    <<"m", "a", "t", "e", "r", "i", "a", "l">>,
    <<"c", "o", "s", "t">>,
    <<"r", "e", "g", "u", "l", "a", "t", "i", "o", "n">>,
    <<"f", "i", "r", "e", " ", "s", "a", "f", "e", "t", "y">>,
    <<"o", "s", "h", "a">>,
    <<"m", "a", "c", "h", "i", "n", "e", "r", "y">>,
    <<"e", "q", "u", "i", "p", "m", "e", "n", "t">>,
    <<"s", "i", "t", "e">>,
    <<"c", "o", "n", "t", "r", "a", "c", "t", "o", "r">>,
    <<"c", "e", "m", "e", "n", "t">>,
    <<"r", "e", "b", "a", "r">>,
    <<"e", "x", "c", "a", "v", "a", "t", "i", "o", "n">>,
    <<"b", "l", "u", "e", "p", "r", "i", "n", "t">>,
    <<"a", "r", "c", "h", "i", "t", "e", "c", "t">>,
    <<"e", "l", "e", "c", "t", "r", "i", "c", "a", "l">>,
    <<"p", "l", "u", "m", "b", "i", "n", "g">>,
    <<"h", "v", "a", "c">>,
    <<"r", "o", "o", "f", "i", "n", "g">>,
    <<"i", "n", "s", "u", "l", "a", "t", "i", "o", "n">>,
    <<"d", "r", "y", "w", "a", "l", "l">> }

search_keywords ==
  { <<"c", "u", "r", "r", "e", "n", "t">>,
    <<"l", "a", "t", "e", "s", "t">>,
    <<"r", "e", "c", "e", "n", "t">>,
    <<"t", "o", "d", "a", "y">>,
    <<"2", "0", "2", "4">>,
    <<"2", "0", "2", "5">>,
    <<"p", "r", "i", "c", "e">>,
    <<"c", "o", "s", "t">>,
    <<"r", "e", "g", "u", "l", "a", "t", "i", "o", "n">>,
    <<"n", "e", "w">>,
    <<"t", "r", "e", "n", "d">> }

\* f-string pieces of get_chat_history and of the fallback response
MessageLabel == << "M", "e", "s", "s", "a", "g", "e", " " >>

UserLabel == << ":", "\n", "U", "s", "e", "r", ":", " " >>

AssistantLabel ==
  << "\n", "A", "s", "s", "i", "s", "t", "a", "n", "t", ":", " " >>

BlockEnd == << "\n", "\n" >>

Ellipsis == << ".", ".", "." >>

(***************************************************************************)
(* Program constants                                                       *)
(***************************************************************************)

\* len(self.memory) > 5
MemoryLimit == 5

\* len(response) < 10
MinResponseLen == 10

\* str(e)[:100]
ErrorDetailLen == 100

(***************************************************************************)
(* Bounds of the model and the inputs the environment supplies             *)
(***************************************************************************)

\* calls of generate_response in one run
MaxTurns == 2

\* calls of generate_response in one run of specification SpecLive
MaxLiveTurns == 1

\* direct calls of add_to_memory in one run (specification SpecMemory)
MaxAppends == 6

\* retrieval calls an agent makes during one kickoff
MaxSearches == 1

\* length of the long exception message
LongErrorLen == 101

\* "What's the weather today?"
QWeather ==
  << "W", "h", "a", "t", "'", "s", " ", "t", "h", "e", " ", "w", "e", "a",
     "t", "h", "e", "r", " ", "t", "o", "d", "a", "y", "?" >>

\* "Steel grades"
QSteel ==
  << "S", "t", "e", "e", "l", " ", "g", "r", "a", "d", "e", "s" >>

\* "rebar cost"
QCost == << "r", "e", "b", "a", "r", " ", "c", "o", "s", "t" >>

Queries == { QWeather, QSteel, QCost }

\* messages of the msg_input textbox: the queries, "" and " \t"
Messages == Queries \cup { << >>, << " ", "\t" >> }

\* "Use rebar"  (9 characters)
TShort == << "U", "s", "e", " ", "r", "e", "b", "a", "r" >>

\* "Use rebar."  (10 characters)
TAnswer == << "U", "s", "e", " ", "r", "e", "b", "a", "r", "." >>

\* what str(crew.kickoff()) can be
CrewTexts ==
  { << >>,
    << " " >> \o TShort \o << "\n" >>,
    << " " >> \o TAnswer \o << "\n" >> }

\* str() of a message object whose content is c: "content='c'"
message_str(c) ==
  << "c", "o", "n", "t", "e", "n", "t", "=", "'" >> \o c \o << "'" >>

\* a message object, with a content attribute
Message(c) == [has_content |-> TRUE, content |-> c, str |-> message_str(c)]

\* what direct_llm.invoke returns: message objects, or some other object
\* with no content attribute, of which str() is taken
LLMResponses ==
  { Message(<< >>),
    Message(<< "o", "k" >>),
    Message(TAnswer \o << " " >>),
    [has_content |-> FALSE, content |-> << >>, str |-> TAnswer] }

\* str(e) of the exceptions crew.kickoff() raises
CrewErrors == { << "t", "i", "m", "e", "o", "u", "t" >> }

\* str(e) of the exceptions direct_llm.invoke raises
DirectErrors ==
  { << "q", "u", "o", "t", "a" >>,
    [i \in 1..LongErrorLen |-> "x"] }

\* arguments of the direct add_to_memory calls of SpecMemory
MemoryExchanges ==
  { << QWeather, DeclineLiteral >>, << QSteel, TAnswer >>, << QCost, TShort >> }

(***************************************************************************)
(* Pure methods of ConstructionChatbot                                     *)
(***************************************************************************)

is_construction_related(query) ==
  LET query_lower == lower(query)
  IN  \E keyword \in construction_keywords : contains(query_lower, keyword)

needs_search(user_query_) ==
  \E keyword \in search_keywords : contains(lower(user_query_), keyword)

\* one f"Message {i}:\nUser: {user_msg}\nAssistant: {bot_msg}\n\n"
history_block(i, exchange) ==
  MessageLabel \o int_str(i) \o UserLabel \o exchange[1]
    \o AssistantLabel \o exchange[2] \o BlockEnd

RECURSIVE history_upto(_, _)
history_upto(mem, k) ==
  IF k = 0 THEN << >>
  ELSE history_upto(mem, k - 1) \o history_block(k, mem[k])

get_chat_history(mem) ==
  IF mem = << >> THEN NoPreviousConversation
  ELSE strip(history_upto(mem, Len(mem)))

\* validated without the length test: if not response
validated_nonempty(text) ==
  LET stripped == strip(text)
  IN  IF stripped = << >> THEN RephraseApology ELSE stripped

\* response = str(result).strip(); too short or empty -> the rephrase apology
validated(text) ==
  LET stripped == strip(text)
  IN  IF stripped = << >> \/ Len(stripped) < MinResponseLen
        THEN RephraseApology
        ELSE stripped

\* response.content if hasattr(response, 'content') else str(response)
response_text(resp) ==
  IF resp.has_content THEN resp.content ELSE resp.str

\* fallback_response embedding str(e) whole
fallback_response_whole(e) ==
  FallbackPrefix \o e \o Ellipsis

\* the f-string of the static apology
fallback_response(e) ==
  FallbackPrefix \o slice_to(e, ErrorDetailLen) \o Ellipsis

\* f-string of error_response in respond, before {str(e)[:100]}; its first
\* character is the emoji U+1F6A8
(* "U+1F6A8 I apologize, but I encountered an error while processing your
   construction query. Please try again or rephrase your question.\n\nError: " *)
ErrorPrefix ==
  <<
    "U+1F6A8", " ", "I", " ", "a", "p", "o", "l", "o", "g", "i", "z", "e", ",", " ", "b",
    "u", "t", " ", "I", " ", "e", "n", "c", "o", "u", "n", "t", "e", "r", "e", "d",
    " ", "a", "n", " ", "e", "r", "r", "o", "r", " ", "w", "h", "i", "l", "e", " ",
    "p", "r", "o", "c", "e", "s", "s", "i", "n", "g", " ", "y", "o", "u", "r", " ",
    "c", "o", "n", "s", "t", "r", "u", "c", "t", "i", "o", "n", " ", "q", "u", "e",
    "r", "y", ".", " ", "P", "l", "e", "a", "s", "e", " ", "t", "r", "y", " ", "a",
    "g", "a", "i", "n", " ", "o", "r", " ", "r", "e", "p", "h", "r", "a", "s", "e",
    " ", "y", "o", "u", "r", " ", "q", "u", "e", "s", "t", "i", "o", "n", ".", "\n",
    "\n", "E", "r", "r", "o", "r", ":", " " >>

\* error_response = f"... Error: {str(e)[:100]}..."
error_response(e) ==
  ErrorPrefix \o slice_to(e, ErrorDetailLen) \o Ellipsis

(***************************************************************************)
(* State                                                                   *)
(***************************************************************************)

VARIABLES
  env,                \* which credentials os.getenv finds
  proc,               \* "running", or "fatal" when module start raised
  search_tool,        \* TRUE: a SerperDevTool object, FALSE: None
  research_agent,     \* TRUE: an Agent, FALSE: None
  construction_tools, \* tools of construction_agent
  memory,             \* self.memory: sequence of <<user_query, response>>
  pc,                 \* position of the one thread of control
  caller,             \* the method the environment called
  user_query,         \* argument of the call
  handlers,           \* except clauses of the try blocks entered, innermost first
  exc,                \* the exception raised last (e), << >> when none
  chat_history,       \* local chat_history
  crew,               \* local crew: its agents and tasks
  result,             \* value of crew.kickoff() / direct_llm.invoke(prompt)
  prompt,             \* local prompt of generate_response_direct
  response,           \* local response / response_text / fallback_response
  outcome,            \* how the last call ended: "none", "returned", "raised"
  ret,                \* the value the last call returned, << >> for None
  calls,              \* calls made by the environment
  appends,            \* memory.append executions during the call
  kickoffs,           \* crew.kickoff() calls during the call
  invokes,            \* direct_llm.invoke calls during the call
  searches,           \* retrieval calls during the call
  crew_error,         \* what crew.kickoff() raised during the call
  direct_error,       \* what direct_llm.invoke raised last during the call
  log,                \* arguments of every add_to_memory since the last clear
  levels,             \* fallback levels entered during the call, in order
  crew_returned,      \* str() of what crew.kickoff() returned during the call
  memory0,            \* self.memory when the call began
  history             \* value of the chatbot_interface component

config == << env, proc, search_tool, research_agent, construction_tools >>

locals == << chat_history, crew, result, prompt >>

tallies ==
  << kickoffs, invokes, searches, crew_error, direct_error, crew_returned >>

counters == << tallies, levels >>

vars ==
  << env, proc, search_tool, research_agent, construction_tools, memory, pc,
     caller, user_query, handlers, exc, chat_history, crew, result, prompt,
     response, outcome, ret, calls, appends, kickoffs, invokes, searches,
     crew_error, direct_error, log, levels, crew_returned, memory0, history >>

NoCrew == [agents |-> << >>, tasks |-> << >>]

NoResult == [has_content |-> FALSE, content |-> << >>, str |-> << >>]

NoPrompt == [chat_history |-> << >>, user_query |-> << >>]

(***************************************************************************)
(* Module start and ConstructionChatbot.__init__                           *)
(***************************************************************************)

\* lines 9-15 raise ValueError unless both keys are set; SerperDevTool()
\* may raise in setup_tools, which leaves search_tool None; setup_crew
\* gives construction_agent the tool and creates research_agent only if
\* search_tool is set
Init ==
  \E openrouter_key \in BOOLEAN, serper_key \in BOOLEAN, tool_ok \in BOOLEAN :
    /\ env = [OPENROUTER_API_KEY |-> openrouter_key,
              SERPER_API_KEY |-> serper_key]
    /\ proc = IF openrouter_key /\ serper_key THEN "running" ELSE "fatal"
    /\ search_tool = (openrouter_key /\ serper_key /\ tool_ok)
    /\ research_agent = search_tool
    /\ construction_tools = IF search_tool THEN { "search_tool" } ELSE { }
    /\ memory = << >>
    /\ pc = "idle"
    /\ caller = "none"
    /\ user_query = << >>
    /\ handlers = << >>
    /\ exc = << >>
    /\ chat_history = << >>
    /\ crew = NoCrew
    /\ result = NoResult
    /\ prompt = NoPrompt
    /\ response = << >>
    /\ outcome = "none"
    /\ ret = << >>
    /\ calls = 0
    /\ appends = 0
    /\ kickoffs = 0
    /\ invokes = 0
    /\ searches = 0
    /\ crew_error = << >>
    /\ direct_error = << >>
    /\ log = << >>
    /\ levels = << >>
    /\ crew_returned = << >>
    /\ memory0 = << >>
    /\ history = << >>

(***************************************************************************)
(* Control: calls, returns and exceptions                                  *)
(***************************************************************************)

\* the environment calls method m with argument q: fresh frames
StartCall(m, q) ==
  /\ proc = "running"
  /\ pc = "idle"
  /\ caller' = m
  /\ user_query' = q
  /\ exc' = << >>
  /\ chat_history' = << >>
  /\ crew' = NoCrew
  /\ result' = NoResult
  /\ prompt' = NoPrompt
  /\ ret' = << >>
  /\ calls' = calls + 1
  /\ appends' = 0
  /\ kickoffs' = 0
  /\ invokes' = 0
  /\ searches' = 0
  /\ crew_error' = << >>
  /\ direct_error' = << >>
  /\ levels' = << >>
  /\ crew_returned' = << >>
  /\ memory0' = memory
  /\ UNCHANGED << config, memory, log >>

\* a message of the chatbot_interface value: {"role": r, "content": c}
ChatMessage(r, c) == [role |-> r, content |-> c]

\* raise e: control goes to the innermost except clause, or out of the call.
\* The except clause of respond (lines 735-739) appends error_response to
\* history and returns.
Raise(e) ==
  /\ exc' = << e >>
  /\ IF handlers = << >>
       THEN /\ pc' = "idle"
            /\ outcome' = "raised"
            /\ handlers' = << >>
            /\ history' = history
       ELSE IF Head(handlers) = "respond_except"
         THEN /\ pc' = "idle"
              /\ outcome' = "returned"
              /\ handlers' = << >>
              /\ history' = Append(history,
                                   ChatMessage("assistant", error_response(e)))
         ELSE /\ pc' = Head(handlers)
              /\ outcome' = outcome
              /\ handlers' = Tail(handlers)
              /\ history' = history

\* self.add_to_memory(user_query, r) followed by return r
AddAndReturn(r) ==
  /\ response' = r
  /\ pc' = "add_append"

call == << caller, user_query, outcome, ret, calls, memory0, history >>

(***************************************************************************)
(* add_to_memory                                                           *)
(***************************************************************************)

\* the environment calls chatbot.add_to_memory(q, r)
add_to_memory(q, r) ==
  /\ calls < MaxAppends
  /\ StartCall("add_to_memory", q)
  /\ history' = history
  /\ outcome' = "none"
  /\ handlers' = << >>
  /\ response' = r
  /\ pc' = "add_append"

\* add_append recording the stripped text: append((user_query,
\* response.strip()))
add_append_stripped ==
  /\ pc = "add_append"
  /\ memory' = Append(memory, << user_query, strip(response) >>)
  /\ log' = Append(log, << user_query, strip(response) >>)
  /\ appends' = appends + 1
  /\ pc' = "add_check"
  /\ UNCHANGED << config, call, handlers, exc, locals, response, counters >>

\* self.memory.append((user_query, response))
add_append ==
  /\ pc = "add_append"
  /\ memory' = Append(memory, << user_query, response >>)
  /\ log' = Append(log, << user_query, response >>)
  /\ appends' = appends + 1
  /\ pc' = "add_check"
  /\ UNCHANGED << config, call, handlers, exc, locals, response, counters >>

\* add_check with the test off by one: if len(self.memory) > 6
add_check_late ==
  /\ pc = "add_check"
  /\ memory' = IF Len(memory) > MemoryLimit + 1 THEN Tail(memory) ELSE memory
  /\ pc' = "return"
  /\ UNCHANGED << config, call, handlers, exc, locals, response, appends,
                  counters, log >>

\* add_check evicting the newest entry: self.memory.pop()
add_check_pop_last ==
  /\ pc = "add_check"
  /\ memory' = IF Len(memory) > MemoryLimit
                 THEN SubSeq(memory, 1, Len(memory) - 1)
                 ELSE memory
  /\ pc' = "return"
  /\ UNCHANGED << config, call, handlers, exc, locals, response, appends,
                  counters, log >>

\* if len(self.memory) > 5: self.memory.pop(0)
add_check ==
  /\ pc = "add_check"
  /\ memory' = IF Len(memory) > MemoryLimit THEN Tail(memory) ELSE memory
  /\ pc' = "return"
  /\ UNCHANGED << config, call, handlers, exc, locals, response, appends,
                  counters, log >>

\* the return statements: add_to_memory returns None, the generate_*
\* methods return response through every frame above them
return_ ==
  /\ pc = "return"
  /\ ret' = IF caller \in { "generate_response", "generate_response_direct" }
            THEN << response >>
            ELSE << >>
  /\ outcome' = "returned"
  /\ pc' = "idle"
  /\ handlers' = << >>
  /\ exc' = << >>
  /\ chat_history' = << >>
  /\ crew' = NoCrew
  /\ result' = NoResult
  /\ prompt' = NoPrompt
  /\ response' = << >>
  /\ history' = IF caller = "respond"
                  THEN Append(history, ChatMessage("assistant", response))
                  ELSE history
  /\ UNCHANGED << config, memory, caller, user_query, calls, memory0, appends,
                  counters, log >>

\* clear_chat emptying the displayed conversation only
clear_chat_display_only ==
  /\ proc = "running"
  /\ pc = "idle"
  /\ UNCHANGED << memory, log >>
  /\ caller' = "clear_chat"
  /\ user_query' = << >>
  /\ outcome' = "returned"
  /\ ret' = << >>
  /\ exc' = << >>
  /\ appends' = 0
  /\ kickoffs' = 0
  /\ invokes' = 0
  /\ searches' = 0
  /\ crew_error' = << >>
  /\ direct_error' = << >>
  /\ levels' = << >>
  /\ crew_returned' = << >>
  /\ memory0' = << >>
  /\ history' = << >>
  /\ UNCHANGED << config, pc, calls, handlers, locals, response >>

\* the environment calls clear_chat: chatbot.memory.clear(), which returns
clear_chat ==
  /\ proc = "running"
  /\ pc = "idle"
  /\ memory' = << >>
  /\ log' = << >>
  /\ caller' = "clear_chat"
  /\ user_query' = << >>
  /\ outcome' = "returned"
  /\ ret' = << >>
  /\ exc' = << >>
  /\ appends' = 0
  /\ kickoffs' = 0
  /\ invokes' = 0
  /\ searches' = 0
  /\ crew_error' = << >>
  /\ direct_error' = << >>
  /\ levels' = << >>
  /\ crew_returned' = << >>
  /\ memory0' = << >>
  /\ history' = << >>
  /\ UNCHANGED << config, pc, calls, handlers, locals, response >>

(***************************************************************************)
(* generate_response and generate_response_with_crew                       *)
(***************************************************************************)

\* the environment calls chatbot.generate_response(q): the try of line 277
\* is entered and generate_response_with_crew is called
generate_response(q) ==
  /\ calls < MaxTurns
  /\ StartCall("generate_response", q)
  /\ history' = history
  /\ outcome' = "none"
  /\ handlers' = << "gr_except" >>
  /\ response' = << >>
  /\ pc' = "crew_gate"

\* crew_gate letting every query through to the crew
crew_gate_open ==
  /\ pc = "crew_gate"
  /\ pc' = "crew_history"
  /\ UNCHANGED << config, memory, call, handlers, exc, locals, response,
                  appends, counters, log >>

\* crew_gate declining without recording the exchange
crew_gate_unrecorded ==
  /\ pc = "crew_gate"
  /\ IF ~is_construction_related(user_query)
       THEN /\ response' = DeclineLiteral
            /\ pc' = "return"
       ELSE /\ pc' = "crew_history"
            /\ response' = response
  /\ UNCHANGED << config, memory, call, handlers, exc, locals, appends,
                  counters, log >>

\* if not self.is_construction_related(user_query): decline
crew_gate ==
  /\ pc = "crew_gate"
  /\ IF ~is_construction_related(user_query)
       THEN AddAndReturn(DeclineLiteral)
       ELSE /\ pc' = "crew_history"
            /\ response' = response
  /\ UNCHANGED << config, memory, call, handlers, exc, locals, appends,
                  counters, log >>

\* chat_history = self.get_chat_history(), then the try of line 148
crew_history ==
  /\ pc = "crew_history"
  /\ chat_history' = get_chat_history(memory)
  /\ handlers' = << "crew_except" >> \o handlers
  /\ levels' = Append(levels, "PipelineCall")
  /\ pc' = "crew_route"
  /\ UNCHANGED << config, memory, call, exc, crew, result, prompt, response,
                  appends, tallies, log >>

\* Task(description=f"Search for ... {user_query}", agent=research_agent)
research_task(q) ==
  [agent |-> "research_agent", user_query |-> q, chat_history |-> << >>,
   context |-> << >>]

\* Task(description=f"Based on research findings ... {user_query} ...
\* {chat_history}", agent=construction_agent, context=[research_task])
synthesis_task(q, h) ==
  [agent |-> "construction_agent", user_query |-> q, chat_history |-> << h >>,
   context |-> << research_task(q) >>]

\* Task(description=f"Provide expert construction advice for: {user_query}
\* ... {chat_history}", agent=construction_agent)
direct_task(q, h) ==
  [agent |-> "construction_agent", user_query |-> q, chat_history |-> << h >>,
   context |-> << >>]

\* select_crew with the two tasks in the other order: synthesis, research
select_crew_reversed(q, h, has_research_agent) ==
  IF needs_search(q) /\ has_research_agent
    THEN [agents |-> << "research_agent", "construction_agent" >>,
          tasks  |-> << synthesis_task(q, h), research_task(q) >>]
    ELSE [agents |-> << "construction_agent" >>,
          tasks  |-> << direct_task(q, h) >>]

\* select_crew testing needs_search alone
select_crew_unguarded(q, h, has_research_agent) ==
  IF needs_search(q)
    THEN [agents |-> << "research_agent", "construction_agent" >>,
          tasks  |-> << research_task(q), synthesis_task(q, h) >>]
    ELSE [agents |-> << "construction_agent" >>,
          tasks  |-> << direct_task(q, h) >>]

\* if needs_search and self.research_agent: two tasks, else one
select_crew(q, h, has_research_agent) ==
  IF needs_search(q) /\ has_research_agent
    THEN [agents |-> << "research_agent", "construction_agent" >>,
          tasks  |-> << research_task(q), synthesis_task(q, h) >>]
    ELSE [agents |-> << "construction_agent" >>,
          tasks  |-> << direct_task(q, h) >>]

crew_route ==
  /\ pc = "crew_route"
  /\ crew' = select_crew(user_query, chat_history, research_agent)
  /\ pc' = "crew_kickoff"
  /\ UNCHANGED << config, memory, call, handlers, exc, chat_history, result,
                  prompt, response, appends, counters, log >>

\* the tools an agent of the crew was built with
agent_tools(a) ==
  IF a = "research_agent"
    THEN (IF search_tool THEN { "search_tool" } ELSE { })
    ELSE construction_tools

\* retrieval calls a kickoff of this crew can make: none without a tool
search_counts ==
  IF \E i \in DOMAIN crew.agents : "search_tool" \in agent_tools(crew.agents[i])
    THEN 0..MaxSearches
    ELSE { 0 }

\* result = crew.kickoff() returns
crew_kickoff_returns ==
  /\ pc = "crew_kickoff"
  /\ \E text \in CrewTexts, n \in search_counts :
       /\ result' = [has_content |-> FALSE, content |-> << >>, str |-> text]
       /\ crew_returned' = << text >>
       /\ searches' = searches + n
  /\ kickoffs' = kickoffs + 1
  /\ pc' = "crew_validate"
  /\ UNCHANGED << config, memory, call, handlers, exc, chat_history, crew,
                  prompt, response, appends, invokes, crew_error,
                  direct_error, log, levels >>

\* result = crew.kickoff() raises
crew_kickoff_raises ==
  /\ pc = "crew_kickoff"
  /\ \E e \in CrewErrors, n \in search_counts :
       /\ crew_error' = << e >>
       /\ searches' = searches + n
       /\ Raise(e)
  /\ kickoffs' = kickoffs + 1
  /\ UNCHANGED << config, memory, caller, user_query, ret, calls, memory0,
                  locals, response, appends, invokes, direct_error, log,
                  levels, crew_returned >>

\* crew_validate treating an empty result as a failure of the crew: raise
crew_validate_raises ==
  /\ pc = "crew_validate"
  /\ IF strip(result.str) = << >>
       THEN /\ Raise(<< "e", "m", "p", "t", "y" >>)
            /\ response' = response
       ELSE /\ AddAndReturn(validated(result.str))
            /\ UNCHANGED << handlers, exc, outcome, history >>
  /\ UNCHANGED << config, memory, caller, user_query, ret, calls, memory0,
                  locals, appends, counters, log >>

\* response = str(result).strip(), the length check, add_to_memory, return
crew_validate ==
  /\ pc = "crew_validate"
  /\ AddAndReturn(validated(result.str))
  /\ UNCHANGED << config, memory, call, handlers, exc, locals, appends,
                  counters, log >>

\* except_call_direct with the inner clause raising again (except Exception:
\* raise in generate_response_with_crew), which leaves the direct call to the
\* clause of generate_response
except_inner_reraises(h) ==
  /\ pc = h
  /\ IF h = "crew_except"
       THEN /\ Raise(exc[1])
            /\ levels' = levels
       ELSE /\ levels' = Append(levels, "DirectCall")
            /\ pc' = "direct_gate"
            /\ UNCHANGED << handlers, exc, outcome, history >>
  /\ UNCHANGED << config, memory, caller, user_query, ret, calls, memory0,
                  locals, response, appends, tallies, log >>

\* except_call_direct calling generate_response_with_crew again
except_reenters_crew(h) ==
  /\ pc = h
  /\ pc' = "crew_gate"
  /\ UNCHANGED << config, memory, call, handlers, exc, locals, response,
                  appends, counters, log >>

\* except_call_direct recording the failed attempt before falling back
except_records_failure(h) ==
  /\ pc = h
  /\ memory' = Append(memory, << user_query, RephraseApology >>)
  /\ levels' = Append(levels, "DirectCall")
  /\ pc' = "direct_gate"
  /\ UNCHANGED << config, call, handlers, exc, locals, response, appends,
                  tallies, log >>

\* except_call_direct running the crew again instead of falling back
except_retry_crew(h) ==
  /\ pc = h
  /\ pc' = "crew_history"
  /\ UNCHANGED << config, memory, call, handlers, exc, locals, response,
                  appends, counters, log >>

\* except_call_direct answering with the apology instead of falling back
except_without_direct(h) ==
  /\ pc = h
  /\ AddAndReturn(RephraseApology)
  /\ UNCHANGED << config, memory, call, handlers, exc, locals, appends,
                  counters, log >>

\* except Exception as e: print(...); return self.generate_response_direct(
\* user_query), in generate_response_with_crew (h = "crew_except") and in
\* generate_response (h = "gr_except")
except_call_direct(h) ==
  /\ pc = h
  /\ levels' = Append(levels, "DirectCall")
  /\ pc' = "direct_gate"
  /\ UNCHANGED << config, memory, call, handlers, exc, locals, response,
                  appends, tallies, log >>

(***************************************************************************)
(* respond: the handler of msg_input.submit and send_btn.click             *)
(***************************************************************************)

\* respond without the test of line 721
respond_unchecked(message) ==
  /\ calls < MaxTurns
  /\ StartCall("respond", message)
  /\ response' = << >>
  /\ history' = Append(history, ChatMessage("user", message))
  /\ outcome' = "none"
  /\ handlers' = << "gr_except", "respond_except" >>
  /\ pc' = "crew_gate"

\* if not message.strip(): return history, "", ...; else the user message is
\* appended to history and chatbot.generate_response(message) is called in
\* the try of line 732
respond(message) ==
  /\ calls < MaxTurns
  /\ StartCall("respond", message)
  /\ response' = << >>
  /\ IF strip(message) = << >>
       THEN /\ history' = history
            /\ outcome' = "returned"
            /\ handlers' = << >>
            /\ pc' = "idle"
       ELSE /\ history' = Append(history, ChatMessage("user", message))
            /\ outcome' = "none"
            /\ handlers' = << "gr_except", "respond_except" >>
            /\ pc' = "crew_gate"

(***************************************************************************)
(* generate_response_direct                                                *)
(***************************************************************************)

\* the environment calls chatbot.generate_response_direct(q) on its own
generate_response_direct(q) ==
  /\ calls < MaxTurns
  /\ StartCall("generate_response_direct", q)
  /\ history' = history
  /\ outcome' = "none"
  /\ handlers' = << >>
  /\ response' = << >>
  /\ pc' = "direct_gate"

\* direct_gate letting every query through to the prompt
direct_gate_open ==
  /\ pc = "direct_gate"
  /\ pc' = "direct_history"
  /\ UNCHANGED << config, memory, call, handlers, exc, locals, response,
                  appends, counters, log >>

\* if not self.is_construction_related(user_query): decline
direct_gate ==
  /\ pc = "direct_gate"
  /\ IF ~is_construction_related(user_query)
       THEN AddAndReturn(DeclineLiteral)
       ELSE /\ pc' = "direct_history"
            /\ response' = response
  /\ UNCHANGED << config, memory, call, handlers, exc, locals, appends,
                  counters, log >>

\* chat_history = self.get_chat_history(); prompt = f"..."; the try of 257
direct_history ==
  /\ pc = "direct_history"
  /\ chat_history' = get_chat_history(memory)
  /\ prompt' = [chat_history |-> get_chat_history(memory),
                user_query |-> user_query]
  /\ handlers' = << "direct_except" >> \o handlers
  /\ pc' = "direct_invoke"
  /\ UNCHANGED << config, memory, call, exc, crew, result, response, appends,
                  counters, log >>

\* response = direct_llm.invoke(prompt) returns
direct_invoke_returns ==
  /\ pc = "direct_invoke"
  /\ \E r \in LLMResponses : result' = r
  /\ invokes' = invokes + 1
  /\ pc' = "direct_text"
  /\ UNCHANGED << config, memory, call, handlers, exc, chat_history, crew,
                  prompt, response, appends, kickoffs, searches, crew_error,
                  direct_error, log, levels, crew_returned >>

\* response = direct_llm.invoke(prompt) raises
direct_invoke_raises ==
  /\ pc = "direct_invoke"
  /\ \E e \in DirectErrors :
       /\ direct_error' = << e >>
       /\ Raise(e)
  /\ invokes' = invokes + 1
  /\ UNCHANGED << config, memory, caller, user_query, ret, calls, memory0,
                  locals, response, appends, kickoffs, searches, crew_error,
                  log, levels, crew_returned >>

\* direct_text returning the text without recording it
direct_text_unrecorded ==
  /\ pc = "direct_text"
  /\ response' = response_text(result)
  /\ pc' = "return"
  /\ UNCHANGED << config, memory, call, handlers, exc, locals, appends,
                  counters, log >>

\* response_text = ...; self.add_to_memory(user_query, response_text); return
direct_text ==
  /\ pc = "direct_text"
  /\ AddAndReturn(response_text(result))
  /\ UNCHANGED << config, memory, call, handlers, exc, locals, appends,
                  counters, log >>

\* direct_except raising the exception again: except Exception: raise
direct_except_reraises ==
  /\ pc = "direct_except"
  /\ Raise(exc[1])
  /\ UNCHANGED << config, memory, caller, user_query, ret, calls, memory0,
                  locals, response, appends, counters, log >>

\* except Exception as e: fallback_response = f"...{str(e)[:100]}...";
\* self.add_to_memory(user_query, fallback_response); return
direct_except ==
  /\ pc = "direct_except"
  /\ AddAndReturn(fallback_response(exc[1]))
  /\ levels' = Append(levels, "StaticApology")
  /\ UNCHANGED << config, memory, call, handlers, exc, locals, appends,
                  tallies, log >>

(***************************************************************************)
(* Specifications                                                          *)
(***************************************************************************)

Next ==
  \/ \E q \in Queries : generate_response(q)
  \/ crew_gate
  \/ crew_history
  \/ crew_route
  \/ crew_kickoff_returns
  \/ crew_kickoff_raises
  \/ crew_validate
  \/ \E h \in { "crew_except", "gr_except" } : except_call_direct(h)
  \/ direct_gate
  \/ direct_history
  \/ direct_invoke_returns
  \/ direct_invoke_raises
  \/ direct_text
  \/ direct_except
  \/ add_append
  \/ add_check
  \/ return_
  \/ clear_chat

Spec == Init /\ [][Next]_vars

\* the statements of a call in progress: Python runs them one after the
\* other, and crew.kickoff() and direct_llm.invoke each return or raise
TurnSteps ==
  \/ crew_gate
  \/ crew_history
  \/ crew_route
  \/ crew_kickoff_returns
  \/ crew_kickoff_raises
  \/ crew_validate
  \/ \E h \in { "crew_except", "gr_except" } : except_call_direct(h)
  \/ direct_gate
  \/ direct_history
  \/ direct_invoke_returns
  \/ direct_invoke_raises
  \/ direct_text
  \/ direct_except
  \/ add_append
  \/ add_check
  \/ return_

\* calls of generate_response and clear_chat, with the statements of a call
NextLive ==
  \/ \E q \in Queries : calls < MaxLiveTurns /\ generate_response(q)
  \/ TurnSteps
  \/ clear_chat

\* a call in progress always takes its next step
SpecLive == Init /\ [][NextLive]_vars /\ WF_vars(TurnSteps)

\* generate_response_direct called on its own
NextDirect ==
  \/ \E q \in Queries : generate_response_direct(q)
  \/ direct_gate
  \/ direct_history
  \/ direct_invoke_returns
  \/ direct_invoke_raises
  \/ direct_text
  \/ direct_except
  \/ add_append
  \/ add_check
  \/ return_
  \/ clear_chat

SpecDirect == Init /\ [][NextDirect]_vars

\* the chatbot driven through the handlers of the interface
NextUI ==
  \/ \E message \in Messages : respond(message)
  \/ crew_gate
  \/ crew_history
  \/ crew_route
  \/ crew_kickoff_returns
  \/ crew_kickoff_raises
  \/ crew_validate
  \/ \E h \in { "crew_except", "gr_except" } : except_call_direct(h)
  \/ direct_gate
  \/ direct_history
  \/ direct_invoke_returns
  \/ direct_invoke_raises
  \/ direct_text
  \/ direct_except
  \/ add_append
  \/ add_check
  \/ return_
  \/ clear_chat

SpecUI == Init /\ [][NextUI]_vars

\* the memory window driven directly through add_to_memory and clear
NextMemory ==
  \/ \E x \in MemoryExchanges : add_to_memory(x[1], x[2])
  \/ add_append
  \/ add_check
  \/ return_
  \/ clear_chat

SpecMemory == Init /\ [][NextMemory]_vars

(***************************************************************************)
(* Properties                                                              *)
(***************************************************************************)

Min(a, b) == IF a < b THEN a ELSE b

\* the last n elements of s
LastN(s, n) == SubSeq(s, Len(s) - n + 1, Len(s))

\* a call of generate_response has ended
TurnDone == caller = "generate_response" /\ pc = "idle"

\* C1: a call of generate_response never ends by raising: whatever
\* crew.kickoff() and direct_llm.invoke return or raise, the call returns
C1_NeverRaises == TurnDone => outcome = "returned"

\* C1 case: both kickoff and invoke raised and the call still returned
C1_Witness ==
  /\ TurnDone
  /\ outcome = "returned"
  /\ crew_error # << >>
  /\ direct_error # << >>

\* C2: every string generate_response returns has length > 0
C2_ReturnsNonEmpty ==
  (TurnDone /\ outcome = "returned") => (ret # << >> /\ Len(ret[1]) > 0)

\* C3: for a query the topic gate rejects, generate_response returns the
\* decline literal and the turn appends exactly one exchange, (query,
\* decline literal)
C3_DeclineRecordedOnce ==
  (TurnDone /\ ~is_construction_related(user_query)) =>
    /\ ret = << DeclineLiteral >>
    /\ appends = 1
    /\ memory # << >>
    /\ memory[Len(memory)] = << user_query, DeclineLiteral >>
    /\ kickoffs = 0
    /\ invokes = 0

\* C3 case: the weather query was declined in the second turn
C3_Witness ==
  /\ TurnDone
  /\ user_query = QWeather
  /\ ret = << DeclineLiteral >>
  /\ Len(memory) = 2

C5_FifoOrder ==
  pc # "add_check" => memory = LastN(log, Min(Len(log), MemoryLimit))

\* C5 case: after the 6th append the 1st exchange is gone, 2..6 remain
C5_Witness ==
  /\ pc = "idle"
  /\ Len(log) = MemoryLimit + 1
  /\ memory = Tail(log)
  /\ log[1] # log[2]

\* C6: a turn of generate_response appends to the window exactly once: never
\* twice while it runs, and once when it has ended, on every path
C6_OneAppendPerTurn ==
  caller = "generate_response" =>
    /\ appends <= 1
    /\ TurnDone => appends = 1

\* C6 case: the pipeline answered too short and the apology was recorded
C6_Witness ==
  /\ TurnDone
  /\ kickoffs = 1
  /\ crew_error = << >>
  /\ ret = << RephraseApology >>
  /\ appends = 1

\* C7: for an in-domain turn the text recorded and returned is the rephrase
\* apology or has at least 10 characters, whichever level supplied it
C7_RecordedTextValidated ==
  (TurnDone /\ outcome = "returned" /\ is_construction_related(user_query)) =>
    LET recorded == memory[Len(memory)][2]
    IN  recorded = RephraseApology \/ Len(recorded) >= MinResponseLen

\* C8: with search_tool None, every crew built is the single direct task run
\* by construction_agent alone, keyword or not, and no retrieval call is made
C8_NoToolMeansDirect ==
  ~search_tool =>
    /\ searches = 0
    /\ crew # NoCrew =>
         /\ crew.agents = << "construction_agent" >>
         /\ crew.tasks = << direct_task(user_query, chat_history) >>

\* C8 case: a query with a retrieval keyword ran through kickoff without tool
C8_Witness ==
  /\ ~search_tool
  /\ pc = "crew_validate"
  /\ needs_search(user_query)
  /\ Len(crew.tasks) = 1
  /\ kickoffs = 1

\* C9: in a turn whose crew.kickoff() raised, direct_llm.invoke is called
\* exactly once; no turn calls it twice
C9_DirectCallOnce ==
  caller = "generate_response" =>
    /\ invokes <= 1
    /\ (TurnDone /\ crew_error # << >>) => invokes = 1

\* C9 case: kickoff raised and the one direct call answered
C9_Witness ==
  /\ TurnDone
  /\ crew_error # << >>
  /\ direct_error = << >>
  /\ invokes = 1
  /\ ret = << TAnswer >>

\* C10: when kickoff and invoke both raised, the text returned is the static
\* apology around the first 100 characters of the message of the invoke
\* error, it is not empty, and it is the text recorded
C10_StaticApology ==
  (TurnDone /\ crew_error # << >> /\ direct_error # << >>) =>
    LET message == direct_error[1]
        detail  == SubSeq(message, 1, Min(Len(message), ErrorDetailLen))
        text    == FallbackPrefix \o detail \o Ellipsis
    IN  /\ ret = << text >>
        /\ Len(text) > 0
        /\ memory[Len(memory)] = << user_query, text >>

\* C10 case: the invoke error's message was longer than 100 characters
C10_Witness ==
  /\ TurnDone
  /\ crew_error # << >>
  /\ direct_error # << >>
  /\ Len(direct_error[1]) > ErrorDetailLen
  /\ Len(ret[1]) = Len(FallbackPrefix) + ErrorDetailLen + Len(Ellipsis)

\* C11: a blank or whitespace-only message given to respond calls no
\* collaborator, appends nothing and leaves the memory window as it was
C11_BlankMessageIgnored ==
  (caller = "respond" /\ strip(user_query) = << >>) =>
    /\ pc = "idle"
    /\ outcome = "returned"
    /\ kickoffs = 0
    /\ invokes = 0
    /\ searches = 0
    /\ levels = << >>
    /\ appends = 0
    /\ memory = memory0

\* C11 case: a whitespace-only message after a turn that recorded an exchange
C11_Witness ==
  /\ caller = "respond"
  /\ user_query = << " ", "\t" >>
  /\ outcome = "returned"
  /\ memory # << >>
  /\ memory = memory0
  /\ Len(history) = 2

\* the text of block i for exchange x as C12 reads it: the stored query and
\* response, unaltered, after their labels (an empty response leaves only
\* the label, whose own last space is no stored character)
verbatim_block(i, x) ==
  LET head == MessageLabel \o int_str(i) \o UserLabel \o x[1]
  IN  IF x[2] = << >>
        THEN head \o SubSeq(AssistantLabel, 1, Len(AssistantLabel) - 1)
        ELSE head \o AssistantLabel \o x[2]

\* where k first occurs in s, 0 when it does not
position(s, k) ==
  IF contains(s, k)
    THEN 1 + CHOOSE i \in 0..(Len(s) - Len(k)) :
               /\ SubSeq(s, i + 1, i + Len(k)) = k
               /\ \A j \in 0..(i - 1) : SubSeq(s, j + 1, j + Len(k)) # k
    ELSE 0

\* C12: get_chat_history returns "No previous conversation." for an empty
\* window, and otherwise one block per exchange, numbered 1..k in insertion
\* order, block i holding the i-th stored query and response character for
\* character
C12_HistoryVerbatim ==
  LET text == get_chat_history(memory)
  IN  IF memory = << >>
        THEN text = NoPreviousConversation
        ELSE /\ \A i \in 1..Len(memory) :
                  contains(text, verbatim_block(i, memory[i]))
             /\ \A i \in 1..(Len(memory) - 1) :
                  position(text, verbatim_block(i, memory[i]))
                    < position(text, verbatim_block(i + 1, memory[i + 1]))

\* C13: at process start a missing model credential is fatal, while a
\* missing retrieval credential is not: the process runs, search_tool is
\* None and every crew that is built has the single direct task
C13_StartupCredentials ==
  /\ ~env.OPENROUTER_API_KEY => proc = "fatal"
  /\ (env.OPENROUTER_API_KEY /\ ~env.SERPER_API_KEY) =>
       /\ proc = "running"
       /\ ~search_tool
       /\ crew # NoCrew => Len(crew.tasks) = 1

\* C15: in a turn whose query the gate rejects, crew.kickoff() is not called,
\* no search and no direct_llm.invoke happens, no crew is selected (so the
\* search keywords are never tested) and the call returns the decline literal
C15_DeclineRunsNoPipeline ==
  (caller = "generate_response" /\ ~is_construction_related(user_query)) =>
    /\ kickoffs = 0
    /\ invokes = 0
    /\ searches = 0
    /\ levels = << >>
    /\ crew = NoCrew
    /\ prompt = NoPrompt
    /\ pc \in { "crew_gate", "add_append", "add_check", "return", "idle" }
    /\ TurnDone => ret = << DeclineLiteral >>

\* C15 case: the weather query was declined in the first turn
C15_Witness ==
  /\ TurnDone
  /\ calls = 1
  /\ ~is_construction_related(user_query)
  /\ ret = << DeclineLiteral >>
  /\ memory = << << QWeather, DeclineLiteral >> >>
  /\ kickoffs = 0

\* the fallback levels in their fixed order
FallbackLevels == << "PipelineCall", "DirectCall", "StaticApology" >>

\* C16: the levels entered in a turn are an initial part of PipelineCall,
\* DirectCall, StaticApology, each at most once: DirectCall is entered only
\* after crew.kickoff() raised, StaticApology only after direct_llm.invoke
\* raised, and nothing is entered after a level returned
C16_LevelsInOrder ==
  caller = "generate_response" =>
    /\ Len(levels) <= Len(FallbackLevels)
    /\ levels = SubSeq(FallbackLevels, 1, Len(levels))
    /\ kickoffs <= 1
    /\ invokes <= 1
    /\ Len(levels) >= 2 => (kickoffs = 1 /\ crew_error # << >>)
    /\ Len(levels) = 3 => (invokes = 1 /\ direct_error # << >>)
    /\ crew_returned # << >> => (levels = << "PipelineCall" >> /\ invokes = 0)
    /\ (invokes = 1 /\ direct_error = << >>) =>
         levels = << "PipelineCall", "DirectCall" >>

\* C16 case: a turn that went through all three levels and returned
C16_Witness ==
  /\ TurnDone
  /\ levels = FallbackLevels
  /\ kickoffs = 1
  /\ invokes = 1
  /\ outcome = "returned"

\* C17 as stated: when crew.kickoff() returns text that is empty after
\* strip(), the direct call is attempted in that turn
C17_EmptyResultFallsThrough ==
  (TurnDone /\ crew_returned # << >> /\ strip(crew_returned[1]) = << >>) =>
    /\ invokes >= 1
    /\ Len(levels) >= 2

\* C17 amended: text from crew.kickoff() that is empty after strip() is
\* replaced by the rephrase apology inside the pipeline level, which is
\* recorded and returned with no direct call; the direct call is attempted
\* only after crew.kickoff() raised
C17_EmptyResultSubstituted ==
  caller = "generate_response" =>
    /\ (crew_returned # << >> /\ strip(crew_returned[1]) = << >>) =>
         /\ invokes = 0
         /\ levels = << "PipelineCall" >>
         /\ crew_error = << >>
         /\ TurnDone =>
              /\ ret = << RephraseApology >>
              /\ memory # << >>
              /\ memory[Len(memory)] = << user_query, RephraseApology >>
    /\ invokes >= 1 => (crew_error # << >> /\ crew_returned = << >>)

\* C17 case: kickoff returned the empty text and the turn returned the apology
C17_Witness ==
  /\ TurnDone
  /\ crew_returned = << << >> >>
  /\ ret = << RephraseApology >>
  /\ invokes = 0

\* C18: whichever crew ran (research then synthesis, or the direct task), text
\* from crew.kickoff() that is empty or shorter than 10 characters after
\* strip() is replaced by the rephrase apology, and the replacement is what
\* is recorded in memory and returned; longer text is kept as stripped
C18_ValidationUniform ==
  (caller = "generate_response" /\ crew_returned # << >>) =>
    LET stripped == strip(crew_returned[1])
        expected == IF Len(stripped) < MinResponseLen
                      THEN RephraseApology
                      ELSE stripped
    IN  /\ pc \in { "add_append", "add_check", "return" } =>
             /\ response = expected
             /\ Len(crew.tasks) \in { 1, 2 }
        /\ pc \in { "add_check", "return", "idle" } =>
             /\ memory # << >>
             /\ memory[Len(memory)] = << user_query, expected >>
        /\ TurnDone => ret = << expected >>

\* C18 case: the two-task crew returned 9 characters and the apology was
\* recorded in their place
C18_Witness ==
  /\ caller = "generate_response"
  /\ pc = "return"
  /\ Len(crew.tasks) = 2
  /\ crew_returned # << >>
  /\ strip(crew_returned[1]) = TShort
  /\ response = RephraseApology
  /\ memory[Len(memory)] = << user_query, RephraseApology >>

\* C19: the crew built for an accepted query has the research task followed
\* by the synthesis task, the synthesis task taking the research task as
\* context, exactly when the query has a search keyword and search_tool is
\* set; otherwise it has the one direct task run by construction_agent; and
\* the crew that is kicked off is the crew that was built
C19_PipelineSelection ==
  /\ crew # NoCrew =>
       /\ caller = "generate_response"
       /\ is_construction_related(user_query)
       /\ IF needs_search(user_query) /\ search_tool
            THEN /\ Len(crew.tasks) = 2
                 /\ crew.agents = << "research_agent", "construction_agent" >>
                 /\ crew.tasks[1].agent = "research_agent"
                 /\ crew.tasks[1].context = << >>
                 /\ crew.tasks[2].agent = "construction_agent"
                 /\ crew.tasks[2].context = << crew.tasks[1] >>
                 /\ crew.tasks[1].user_query = user_query
                 /\ crew.tasks[2].user_query = user_query
            ELSE /\ Len(crew.tasks) = 1
                 /\ crew.agents = << "construction_agent" >>
                 /\ crew.tasks[1].agent = "construction_agent"
                 /\ crew.tasks[1].context = << >>
                 /\ crew.tasks[1].user_query = user_query
  /\ pc \in { "crew_kickoff", "crew_validate" } => crew # NoCrew
  /\ (caller = "generate_response" /\ kickoffs > 0) =>
       is_construction_related(user_query)

\* C19 case: a query with a search keyword ran through kickoff as the
\* two-task crew, search_tool being set
C19_Witness ==
  /\ search_tool
  /\ pc = "crew_validate"
  /\ needs_search(user_query)
  /\ Len(crew.tasks) = 2
  /\ crew.tasks[2].context = << crew.tasks[1] >>
  /\ kickoffs = 1

\* C20: from the start of a turn to its one append the window is the window
\* the turn began with, which holds the latest exchanges of earlier turns in
\* the order they were recorded; the chat history put into the crew's tasks
\* and, after crew.kickoff() raised, into the prompt of the direct call is
\* get_chat_history of that window
C20_MemoryReadOnly ==
  caller = "generate_response" =>
    LET context == get_chat_history(memory0)
    IN  /\ appends = 0 =>
             /\ memory = memory0
             /\ memory0 = LastN(log, Min(Len(log), MemoryLimit))
        /\ appends <= 1
        /\ pc \in { "crew_route", "crew_kickoff", "crew_validate" } =>
             chat_history = context
        /\ crew # NoCrew =>
             /\ crew.tasks[Len(crew.tasks)].chat_history = << context >>
             /\ \A i \in DOMAIN crew.tasks :
                  crew.tasks[i].chat_history \in { << >>, << context >> }
        /\ prompt # NoPrompt =>
             /\ prompt.chat_history = context
             /\ crew_error # << >>

\* C20 case: in a turn begun with a recorded exchange, crew.kickoff() raised
\* and the prompt of the direct call carries the history of that exchange
C20_Witness ==
  /\ caller = "generate_response"
  /\ pc = "direct_invoke"
  /\ memory0 # << >>
  /\ memory = memory0
  /\ appends = 0
  /\ crew_error # << >>
  /\ prompt.chat_history = get_chat_history(memory0)
  /\ crew.tasks[Len(crew.tasks)].chat_history = << prompt.chat_history >>

\* the state of the turn's state machine that the statement at pc belongs to
Phase ==
  CASE pc = "idle" -> "Idle"
    [] pc = "crew_gate" -> "Gated"
    [] pc \in { "crew_history", "crew_route" } -> "Routed"
    [] pc = "crew_kickoff" -> "Executing"
    [] pc = "crew_validate" -> "Validated"
    [] pc \in { "crew_except", "gr_except", "direct_gate", "direct_history",
                "direct_invoke", "direct_text", "direct_except" } -> "Degrading"
    [] pc \in { "add_append", "add_check", "return" } -> "Committed"

\* the edges C21 names, with the start and the end of a call
TurnEdges ==
  { << "Idle", "Gated" >>, << "Gated", "Routed" >>,
    << "Routed", "Executing" >>, << "Executing", "Validated" >>,
    << "Validated", "Committed" >>, << "Executing", "Degrading" >>,
    << "Degrading", "Committed" >>, << "Committed", "Idle" >> }

\* a call in progress ends: it returns, having recorded one exchange
TurnEnds ==
  pc # "idle" ~> (TurnDone /\ outcome = "returned" /\ appends = 1)

\* C21 as stated: every call of generate_response returns, and on its way
\* follows only Gated -> Routed -> Executing -> Validated -> Committed or
\* Executing -> Degrading -> Committed
C21_TerminatesOnNamedEdges ==
  /\ [][Phase' # Phase => << Phase, Phase' >> \in TurnEdges]_vars
  /\ TurnEnds

\* C21 amended: every call of generate_response returns, having recorded one
\* exchange, and on its way follows the named edges or, when the gate
\* rejects the query, goes from Gated to Committed at once
C21_Terminates ==
  /\ [][Phase' # Phase =>
          << Phase, Phase' >> \in TurnEdges \cup { << "Gated", "Committed" >> }]_vars
  /\ TurnEnds

\* C21 case: a call went through the degradation edge and returned
C21_Witness ==
  /\ TurnDone
  /\ calls = MaxLiveTurns
  /\ outcome = "returned"
  /\ levels = << "PipelineCall", "DirectCall" >>
  /\ appends = 1

\* C22: right after clear_chat the window has no exchange and
\* get_chat_history returns "No previous conversation."; the turn that
\* follows starts from the empty window, and when it ends the window holds
\* its exchange alone, formatted as "Message 1:"
C22_ClearResets ==
  /\ [](caller = "clear_chat" =>
          /\ pc = "idle"
          /\ Len(memory) = 0
          /\ get_chat_history(memory) = NoPreviousConversation)
  /\ [][(caller = "clear_chat" /\ caller' = "generate_response") =>
          (memory' = << >> /\ memory0' = << >>)]_vars
  /\ []((TurnDone /\ outcome = "returned" /\ memory0 = << >>) =>
          /\ memory = << << user_query, ret[1] >> >>
          /\ SubSeq(get_chat_history(memory), 1, Len(MessageLabel) + 1)
               = MessageLabel \o int_str(1))

\* C22 case: a turn, then clear_chat, then a second turn whose exchange is
\* the only one in the window
C22_Witness ==
  /\ TurnDone
  /\ calls = 2
  /\ memory0 = << >>
  /\ Len(memory) = 1
  /\ memory[1][1] = user_query

\* C23: generate_response_direct called on its own with a query the gate
\* rejects builds no prompt, does not call direct_llm.invoke, records one
\* exchange and returns the decline literal
C23_DirectGateDeclines ==
  (caller = "generate_response_direct"
     /\ ~is_construction_related(user_query)) =>
    /\ invokes = 0
    /\ kickoffs = 0
    /\ prompt = NoPrompt
    /\ pc \in { "direct_gate", "add_append", "add_check", "return", "idle" }
    /\ appends <= 1
    /\ pc = "idle" =>
         /\ outcome = "returned"
         /\ ret = << DeclineLiteral >>
         /\ appends = 1
         /\ memory # << >>
         /\ memory[Len(memory)] = << user_query, DeclineLiteral >>

\* C23 case: the weather query given to generate_response_direct was declined
C23_Witness ==
  /\ caller = "generate_response_direct"
  /\ pc = "idle"
  /\ user_query = QWeather
  /\ ret = << DeclineLiteral >>
  /\ appends = 1
  /\ invokes = 0

\* C24: when a call of generate_response has returned, the newest exchange
\* of the window is the query of the call with the very string it returned
C24_RecordedIsReturned ==
  TurnDone =>
    /\ outcome = "returned"
    /\ Len(ret) = 1
    /\ memory # << >>
    /\ memory[Len(memory)] = << user_query, ret[1] >>

\* C24 case: the second turn ended with the static apology, which is both
\* the text returned and the text of the newest exchange
C24_Witness ==
  /\ TurnDone
  /\ Len(memory) = 2
  /\ direct_error # << >>
  /\ levels = FallbackLevels
  /\ memory[2] = << user_query, ret[1] >>
  /\ memory[1] # memory[2]

\* C25: in a turn of generate_response that falls back, the gate of
\* generate_response_direct is given the query the first gate accepted and
\* accepts it too, so the turn goes on to direct_llm.invoke and never returns
\* the decline literal; the except clause of generate_response is never
\* entered and stays the outermost handler until the call ends
C25_GateRecheckAgrees ==
  caller = "generate_response" =>
    /\ pc # "gr_except"
    /\ pc # "idle" =>
         /\ handlers # << >>
         /\ handlers[Len(handlers)] = "gr_except"
    /\ levels # << >> => is_construction_related(user_query)
    /\ pc = "direct_gate" =>
         /\ is_construction_related(user_query)
         /\ crew_error # << >>
         /\ levels = << "PipelineCall", "DirectCall" >>
    /\ (crew_error # << >> /\ pc \in { "add_append", "add_check", "return" }) =>
         /\ invokes = 1
         /\ response # DeclineLiteral
    /\ (TurnDone /\ crew_error # << >>) =>
         /\ invokes = 1
         /\ ret # << DeclineLiteral >>

\* C25 case: after crew.kickoff() raised, the second gate accepted the query
\* and the except clause of generate_response is still the pending handler
C25_Witness ==
  /\ caller = "generate_response"
  /\ pc = "direct_history"
  /\ crew_error # << >>
  /\ handlers = << "gr_except" >>
  /\ is_construction_related(user_query)
  /\ invokes = 0

=============================================================================
